---- MODULE Spec2Model ----
(***************************************************************************)
(* git-pr-watcher: the rule evaluation of PRWatcher.processPR and the      *)
(* worker pool of PRWatcher.processPRsConcurrently / CheckPRs.             *)
(* Durations and instants are whole hours.  A pull request held by a       *)
(* channel or a worker is its index in the fetched slice (the pointer).    *)
(***************************************************************************)
EXTENDS Integers, Sequences, FiniteSets, TLC

VARIABLES
    watch,          \* main in watch mode: the ticker's and the signal channel, the runs started
    reviewed,       \* getPullRequestsForRepo on one listed pull request: the reviews and what it returned
    summary,        \* GetPRSummary: its position, what was fetched and the PRSummary returned
    load,           \* config.Load: whether it ran, from what source and on what input
    github,         \* the open pull requests of each configured repository, on the server
    rules,          \* config.Rules: ApprovalTime, MergeReminderTime, MergeTime, DraftTime
    configured,     \* config.Debug.Concurrency
    now,            \* the wall clock read by time.Since
    single,         \* CheckSpecificPR: its position, the PR and what processPR did
    mainPc,         \* CheckPRs: "idle", "aggregating", "returned" (nil), "failed" (error)
    prs,            \* the slice GetPullRequests returned
    concurrency,    \* the worker count handed to processPRsConcurrently
    prChan,         \* buffered channel of pull requests (indices into prs)
    prChanClosed,
    resultChan,     \* buffered channel of per-snapshot NotificationResult
    resultChanClosed,
    feeder,         \* the feeding goroutine: [pc, i]
    wpc,            \* per worker goroutine: "idle", "recv", "select", "dispatch", "exit"
    wpr,            \* per worker: the pull request taken from prChan (0: none)
    totalResult,    \* the accumulator of processPRsConcurrently
    cancelled,      \* w.ctx.Done() is closed
    notifierClosed, \* EmailNotifier.closed
    closePc,        \* PRWatcher.Close: "idle", "cancelled", "done"
    taken,          \* history: per snapshot, how many times a worker received it
    calls,          \* history: per snapshot, the dispatcher calls made for it
    errs,           \* history: per snapshot, what each finished dispatcher call returned
    outs,           \* history: per snapshot, the results processPR returned for it
    answers,        \* history: what the GitHub API answered to the last fetch
    rateLimit,      \* EmailNotifier.rateLimit, milliseconds
    skipEmails,     \* EmailNotifier.skipEmails
    sinceLastSent,  \* time.Since(e.lastSent) now, in milliseconds, capped at rateLimit
    mu,             \* EmailNotifier.mu: the caller holding it, 0 when free
    backing,        \* the backing array of the slice config.Email.To (its length: cap)
    toLen,          \* len(config.Email.To)
    escalationEmail,\* config.Rules.EscalationEmail
    nc,             \* per caller of the notifier: position in Send* / sendNotification
    ncalls          \* the number of Send* calls made so far

vars == <<watch, reviewed, summary, load, github, rules, configured, now, single, mainPc, prs, concurrency, prChan, prChanClosed,
          resultChan, resultChanClosed, feeder, wpc, wpr, totalResult,
          cancelled, notifierClosed, closePc, taken, calls, errs, outs, answers,
          rateLimit, skipEmails, sinceLastSent, mu, backing, toLen,
          escalationEmail, nc, ncalls>>

notifierVars == <<rateLimit, skipEmails, sinceLastSent, mu, backing, toLen,
                  escalationEmail, nc, ncalls>>

batchVars == <<mainPc, prs, concurrency, prChan, prChanClosed, resultChan,
               resultChanClosed, feeder, wpc, wpr, totalResult,
               cancelled, notifierClosed, closePc, taken, calls, errs, outs, answers>>

----------------------------------------------------------------------------
(* Bounds of the model *)

MaxAge == 4          \* ages and thresholds of the single-PR check range over 0..MaxAge
MaxReviews == 3      \* review counts of the single-PR check range over 0..MaxReviews
MaxPRs == 2          \* pull requests one fetch returns, over all repositories
MaxConcurrency == 2  \* largest configured Debug.Concurrency
MaxRuns == 2         \* check runs started in watch mode

(* Program constants *)

MinReviews == 2              \* the review count that separates approval from merge reminders
DefaultConcurrency == 5      \* CheckPRs' fallback worker count
DefaultApprovalTime == 2     \* setDefaults, hours
DefaultMergeReminderTime == 4
DefaultMergeTime == 6
DefaultDraftTime == 96
DefaultRateLimit == 500      \* setDefaults, milliseconds
EnvApprovalTime == 2         \* Load: fallback of APPROVAL_TIME, hours
EnvMergeTime == 4            \* Load: fallback of MERGE_TIME, hours
MaxRetries == 3              \* sendNotification: maxRetries
BaseDelay == 2000            \* sendNotification: baseDelay, milliseconds

----------------------------------------------------------------------------
(* NotificationResult *)

EmptyResult ==
    [ApprovalReminders |-> 0, MergeReminders |-> 0, Escalations |-> 0,
     DraftOverdue |-> 0, Errors |-> <<>>]

Counters(r) == r.ApprovalReminders + r.MergeReminders + r.Escalations + r.DraftOverdue

(* fmt.Errorf("<kind> for PR #%d: %w", pr.Number, err) *)
ErrorTag(kind, pr, err) == [kind |-> kind, number |-> pr.Number, cause |-> err]

(* One of the four Send* methods of the notifier being called by processPR. *)
Call(op, pr, age, threshold) ==
    [op |-> op, number |-> pr.Number, repo |-> pr.Repo, age |-> age, threshold |-> threshold]

(* time.Since(t) *)
Since(t) == now - t

----------------------------------------------------------------------------
(* config.Load.  A duration given in the file or in an environment variable *)
(* is unset, unparsable, or a number of hours.                              *)

Unset == [kind |-> "unset", d |-> 0]

DurationInputs ==
    {Unset, [kind |-> "invalid", d |-> 0]} \cup {[kind |-> "dur", d |-> h] : h \in {0, 1, 24}}

NoInput == [approval |-> Unset, mergeReminder |-> Unset, merge |-> Unset, draft |-> Unset]

(* The configurations that are given *)
ConfigInputs ==
    [approval : DurationInputs, mergeReminder : {Unset, [kind |-> "dur", d |-> 3]},
     merge : DurationInputs, draft : {Unset, [kind |-> "dur", d |-> 48]}]

(* setDefaults, the four thresholds *)
setDefaults(r) ==
    [ApprovalTime      |-> IF r.ApprovalTime = 0 THEN DefaultApprovalTime ELSE r.ApprovalTime,
     MergeReminderTime |-> IF r.MergeReminderTime = 0 THEN DefaultMergeReminderTime
                           ELSE r.MergeReminderTime,
     MergeTime         |-> IF r.MergeTime = 0 THEN DefaultMergeTime ELSE r.MergeTime,
     DraftTime         |-> IF r.DraftTime = 0 THEN DefaultDraftTime ELSE r.DraftTime]

(* parseDuration(s, fallback) *)
parseDuration(s, fallback) == IF s.kind = "dur" THEN s.d ELSE fallback

(* The zero value of RulesConfig *)
ZeroRules == [ApprovalTime |-> 0, MergeReminderTime |-> 0, MergeTime |-> 0, DraftTime |-> 0]

(* Load, the file exists: yaml.Unmarshal, which fails on an unparsable      *)
(* duration and leaves an absent field zero, then setDefaults               *)
LoadFile(given) ==
    IF \E f \in DOMAIN given : given[f].kind = "invalid"
      THEN [err |-> TRUE, rules |-> ZeroRules]
      ELSE [err |-> FALSE,
            rules |-> setDefaults([ApprovalTime      |-> given.approval.d,
                                   MergeReminderTime |-> given.mergeReminder.d,
                                   MergeTime         |-> given.merge.d,
                                   DraftTime         |-> given.draft.d])]

(* Load, no file: APPROVAL_TIME and MERGE_TIME from the environment with    *)
(* their fallbacks, the other two thresholds zero, then setDefaults         *)
LoadEnv(given) ==
    [err |-> FALSE,
     rules |-> setDefaults([ApprovalTime      |-> parseDuration(given.approval, EnvApprovalTime),
                            MergeReminderTime |-> 0,
                            MergeTime         |-> parseDuration(given.merge, EnvMergeTime),
                            DraftTime         |-> 0])]

----------------------------------------------------------------------------
(* processPR, block by block.  st is the function's progress: the result    *)
(* being built, the dispatcher calls made so far, and whether it returned.  *)
(* err is what the dispatcher call returns: "nil" or the error.             *)

Started == [result |-> EmptyResult, calls |-> <<>>, returned |-> FALSE]

(* Mutant: the counter incremented whether or not the dispatch failed *)
NotifyCountsFailures(st, op, kind, counter, pr, age, threshold, err) ==
    [st EXCEPT
        !.calls = Append(@, Call(op, pr, age, threshold)),
        !.result = IF err # "nil"
                     THEN [@ EXCEPT !.Errors = Append(@, ErrorTag(kind, pr, err)),
                                    ![counter] = @ + 1]
                     ELSE [@ EXCEPT ![counter] = @ + 1]]

Notify(st, op, kind, counter, pr, age, threshold, err) ==
    [st EXCEPT
        !.calls = Append(@, Call(op, pr, age, threshold)),
        !.result = IF err # "nil"
                     THEN [@ EXCEPT !.Errors = Append(@, ErrorTag(kind, pr, err))]
                     ELSE [@ EXCEPT ![counter] = @ + 1]]

Return(st) == [st EXCEPT !.returned = TRUE]

(* Mutant: the draft threshold compared strictly *)
DraftBlockStrict(st, pr, age, err) ==
    IF st.returned \/ ~pr.Draft THEN st
    ELSE IF age > rules.DraftTime
        THEN Return(Notify(st, "SendDraftOverdue", "draft overdue", "DraftOverdue",
                           pr, age, rules.DraftTime, err))
        ELSE Return(st)

DraftBlock(st, pr, age, err) ==
    IF st.returned \/ ~pr.Draft THEN st
    ELSE IF age >= rules.DraftTime
        THEN Return(Notify(st, "SendDraftOverdue", "draft overdue", "DraftOverdue",
                           pr, age, rules.DraftTime, err))
        ELSE Return(st)

(* Mutant: the escalation block without its return *)
EscalationBlockFallsThrough(st, pr, age, err) ==
    IF st.returned \/ ~(age >= rules.MergeTime) THEN st
    ELSE Notify(st, "SendEscalation", "escalation", "Escalations",
                pr, age, rules.MergeTime, err)

EscalationBlock(st, pr, age, err) ==
    IF st.returned \/ ~(age >= rules.MergeTime) THEN st
    ELSE Return(Notify(st, "SendEscalation", "escalation", "Escalations",
                       pr, age, rules.MergeTime, err))

(* Mutant: the approval reminder keyed on the Approved flag *)
ApprovalBlockOnApproved(st, pr, age, err) ==
    IF st.returned \/ ~(~pr.Approved /\ age >= rules.ApprovalTime) THEN st
    ELSE Return(Notify(st, "SendApprovalReminder", "approval reminder", "ApprovalReminders",
                       pr, age, rules.ApprovalTime, err))

ApprovalBlock(st, pr, age, err) ==
    IF st.returned \/ ~(pr.ReviewCount < MinReviews /\ age >= rules.ApprovalTime) THEN st
    ELSE Return(Notify(st, "SendApprovalReminder", "approval reminder", "ApprovalReminders",
                       pr, age, rules.ApprovalTime, err))

MergeBlock(st, pr, age, err) ==
    IF st.returned \/ ~(pr.ReviewCount >= MinReviews /\ age >= rules.MergeReminderTime) THEN st
    ELSE Notify(st, "SendMergeReminder", "merge reminder", "MergeReminders",
                pr, age, rules.MergeReminderTime, err)

(* Mutant: the reminder rules tried before the escalation rule *)
processPRRemindersFirst(pr, err) ==
    LET age == Since(pr.CreatedAt) IN
    Return(EscalationBlock(MergeBlock(ApprovalBlock(DraftBlock(Started, pr, age, err),
                                                    pr, age, err), pr, age, err), pr, age, err))

processPR(pr, err) ==
    LET age == Since(pr.CreatedAt) IN
    Return(MergeBlock(ApprovalBlock(EscalationBlock(DraftBlock(Started, pr, age, err),
                                                    pr, age, err), pr, age, err), pr, age, err))

----------------------------------------------------------------------------
(* CheckSpecificPR: fetch one pull request and run processPR on it. *)

Thresholds == 1..MaxAge

ThresholdSettings ==
    [ApprovalTime : Thresholds, MergeReminderTime : Thresholds,
     MergeTime : Thresholds, DraftTime : Thresholds]

(* What GetPRDetails can return.  checkPRApprovals counts an APPROVED review, *)
(* so an approved pull request has a review count of at least one.           *)
Snapshots ==
    {pr \in [Number : {1}, Repo : {"r1"}, Draft : BOOLEAN, CreatedAt : 0..MaxAge,
             ReviewCount : 0..MaxReviews, Approved : BOOLEAN] :
        pr.Approved => pr.ReviewCount >= 1}

SingleIdle == [pc |-> "idle"]

CheckSpecificPR ==
    /\ single.pc = "idle"
    /\ \/ single' = [pc |-> "failed"]                       \* GetPRDetails failed
       \/ \E pr \in Snapshots, err \in {"nil", "smtp"} :
            LET st == processPR(pr, err) IN
            single' = [pc |-> "done", pr |-> pr, age |-> Since(pr.CreatedAt),
                       result |-> st.result, calls |-> st.calls,
                       ret |-> IF Len(st.result.Errors) > 0
                                 THEN st.result.Errors[1].kind ELSE "nil"]
    /\ UNCHANGED <<watch, reviewed, summary, load, notifierVars, github, rules, configured, now, batchVars>>

----------------------------------------------------------------------------
(* GetPRSummary *)

EmptySummary ==
    [TotalPRs |-> 0, NeedsApproval |-> 0, NeedsEscalation |-> 0, Approved |-> 0, Draft |-> 0,
     PRs |-> <<>>]

StatusOfByApproval(pr, age) ==
    IF pr.Draft
      THEN [counter |-> "Draft",
            status |-> IF age >= rules.DraftTime THEN "Draft Overdue" ELSE "Draft"]
    ELSE IF pr.Approved
      THEN [counter |-> "Approved", status |-> "Approved"]
    ELSE IF age >= rules.MergeTime
      THEN [counter |-> "NeedsEscalation", status |-> "Needs Escalation"]
    ELSE IF age >= rules.ApprovalTime
      THEN [counter |-> "NeedsApproval", status |-> "Needs Approval"]
    ELSE [counter |-> "none", status |-> "OK"]

(* The status GetPRSummary gives one pull request, and the counter it adds to *)
StatusOf(pr, age) ==
    IF pr.Draft
      THEN [counter |-> "Draft",
            status |-> IF age >= rules.DraftTime THEN "Draft Overdue" ELSE "Draft"]
    ELSE IF pr.ReviewCount >= MinReviews
      THEN [counter |-> "Approved", status |-> "Approved"]
    ELSE IF age >= rules.MergeTime
      THEN [counter |-> "NeedsEscalation", status |-> "Needs Escalation"]
    ELSE IF age >= rules.ApprovalTime
      THEN [counter |-> "NeedsApproval", status |-> "Needs Approval"]
    ELSE [counter |-> "none", status |-> "OK"]

(* The loop over the fetched pull requests, from position k on *)
RECURSIVE Summarize(_, _, _)
Summarize(fetched, k, sum) ==
    IF k > Len(fetched) THEN sum
    ELSE LET pr == fetched[k]
             age == Since(pr.CreatedAt)
             st == StatusOf(pr, age)
             row == [Number |-> pr.Number, Repo |-> pr.Repo, Age |-> age,
                     Approved |-> pr.Approved, ReviewCount |-> pr.ReviewCount,
                     Status |-> st.status]
             counted == IF st.counter = "none" THEN sum
                        ELSE [sum EXCEPT ![st.counter] = @ + 1]
         IN Summarize(fetched, k + 1, [counted EXCEPT !.PRs = Append(@, row)])

SummaryIdle == [pc |-> "idle", fetched |-> <<>>, result |-> EmptySummary]

(* GetPRSummary on what GetPullRequests returns: an error, or a list, here  *)
(* of at most one pull request of any shape                                 *)
GetPRSummary ==
    /\ summary.pc = "idle"
    /\ \/ summary' = [SummaryIdle EXCEPT !.pc = "failed"]
       \/ \E fetched \in {<<>>} \cup {<<pr>> : pr \in Snapshots} :
            summary' = [pc |-> "done", fetched |-> fetched,
                        result |-> Summarize(fetched, 1,
                                     [EmptySummary EXCEPT !.TotalPRs = Len(fetched)])]
    /\ UNCHANGED <<watch, reviewed, load, notifierVars, github, rules, configured, now, single, batchVars>>

----------------------------------------------------------------------------
(* The data retrieval layer *)

Repos == <<"r1", "r2">>

(* The pull requests of the two repositories, each repository newest first  *)
(* as PullRequests.List returns them (age in hours).  They are the cases of *)
(* processPR under the default thresholds: no rule, approval reminder,      *)
(* escalation on few reviews; merge reminder, escalation, overdue draft.    *)
GitHub ==
    << << [Number |-> 5, Draft |-> FALSE, Age |-> 1,   ReviewCount |-> 0, Approved |-> FALSE],
          [Number |-> 4, Draft |-> FALSE, Age |-> 3,   ReviewCount |-> 0, Approved |-> FALSE],
          [Number |-> 3, Draft |-> FALSE, Age |-> 8,   ReviewCount |-> 1, Approved |-> TRUE] >>,
       << [Number |-> 4, Draft |-> FALSE, Age |-> 5,   ReviewCount |-> 3, Approved |-> TRUE],
          [Number |-> 3, Draft |-> FALSE, Age |-> 7,   ReviewCount |-> 3, Approved |-> TRUE],
          [Number |-> 1, Draft |-> TRUE,  Age |-> 100, ReviewCount |-> 0, Approved |-> FALSE] >> >>

(* The elements of sequence s at the positions in set open, in order *)
RECURSIVE Keep(_, _, _)
Keep(s, open, i) ==
    IF i > Len(s) THEN <<>>
    ELSE (IF i \in open THEN <<s[i]>> ELSE <<>>) \o Keep(s, open, i + 1)

RECURSIVE TotalLen(_, _)
TotalLen(resp, i) == IF i = 0 THEN 0 ELSE Len(resp[i].list) + TotalLen(resp, i - 1)

(* Three pull requests that each get a notification under the default      *)
(* thresholds: approval reminder, escalation; merge reminder.               *)
GitHubSmall ==
    << << [Number |-> 4, Draft |-> FALSE, Age |-> 3,   ReviewCount |-> 0, Approved |-> FALSE],
          [Number |-> 3, Draft |-> FALSE, Age |-> 8,   ReviewCount |-> 1, Approved |-> TRUE] >>,
       << [Number |-> 4, Draft |-> FALSE, Age |-> 5,   ReviewCount |-> 3, Approved |-> TRUE] >> >>

(* What the GitHub API answers for each configured repository: an error, or *)
(* the pull requests of the repository that are open.                      *)
Answers(i) ==
    {[err |-> TRUE, list |-> <<>>]} \cup
    {[err |-> FALSE, list |-> Keep(github[i], open, 1)] :
        open \in {o \in SUBSET (1..Len(github[i])) : Cardinality(o) <= MaxPRs}}

Responses ==
    {resp \in [1..Len(Repos) -> Answers(1) \cup Answers(2)] :
        /\ \A i \in 1..Len(Repos) : resp[i] \in Answers(i)
        /\ TotalLen(resp, Len(Repos)) <= MaxPRs}

getPullRequestsForRepo(repo, answer) ==
    IF answer.err THEN [prs |-> <<>>, err |-> repo]
    ELSE [prs |-> [k \in 1..Len(answer.list) |->
                     [Number |-> answer.list[k].Number, Repo |-> repo, Draft |-> answer.list[k].Draft,
                      CreatedAt |-> now - answer.list[k].Age,
                      ReviewCount |-> answer.list[k].ReviewCount,
                      Approved |-> answer.list[k].Approved]],
          err |-> "nil"]

(* Mutant: a failing repository skipped and the others' pull requests returned *)
RECURSIVE GetPullRequestsLoopSkipping(_, _, _)
GetPullRequestsLoopSkipping(resp, i, allPRs) ==
    IF i > Len(Repos) THEN [prs |-> allPRs, err |-> "nil"]
    ELSE LET got == getPullRequestsForRepo(Repos[i], resp[i]) IN
         IF got.err # "nil" THEN GetPullRequestsLoopSkipping(resp, i + 1, allPRs)
         ELSE GetPullRequestsLoopSkipping(resp, i + 1, allPRs \o got.prs)

RECURSIVE GetPullRequestsLoop(_, _, _)
GetPullRequestsLoop(resp, i, allPRs) ==
    IF i > Len(Repos) THEN [prs |-> allPRs, err |-> "nil"]
    ELSE LET got == getPullRequestsForRepo(Repos[i], resp[i]) IN
         IF got.err # "nil" THEN [prs |-> <<>>, err |-> got.err]
         ELSE GetPullRequestsLoop(resp, i + 1, allPRs \o got.prs)

GetPullRequests(resp) == GetPullRequestsLoop(resp, 1, <<>>)

(* The states of a review, and the lists PullRequests.ListReviews can return *)
ReviewStates == {"APPROVED", "CHANGES_REQUESTED", "COMMENTED", "DISMISSED"}

MaxReviewList == 3

RECURSIVE ListsOf(_, _)
ListsOf(S, n) ==
    IF n = 0 THEN {<<>>}
    ELSE ListsOf(S, n - 1) \cup {Append(l, x) : l \in {m \in ListsOf(S, n - 1) : Len(m) = n - 1}, x \in S}

ReviewLists == ListsOf(ReviewStates, MaxReviewList)

(* The loop of checkPRApprovals over the reviews, from position i on *)
RECURSIVE ReviewLoop(_, _, _, _)
ReviewLoop(reviews, i, approved, reviewCount) ==
    IF i > Len(reviews) THEN [approved |-> approved, reviewCount |-> reviewCount, err |-> "nil"]
    ELSE ReviewLoop(reviews, i + 1,
                    approved \/ reviews[i] = "APPROVED",
                    IF reviews[i] # "COMMENTED" THEN reviewCount + 1 ELSE reviewCount)

(* Mutant: only approvals counted *)
checkPRApprovalsCountingApprovals(listed) ==
    IF listed.err THEN [approved |-> FALSE, reviewCount |-> 0, err |-> "reviews"]
    ELSE LET r == ReviewLoop(listed.reviews, 1, FALSE, 0) IN
         [r EXCEPT !.reviewCount = Cardinality({i \in 1..Len(listed.reviews) :
                                                  listed.reviews[i] = "APPROVED"})]

checkPRApprovals(listed) ==
    IF listed.err THEN [approved |-> FALSE, reviewCount |-> 0, err |-> "reviews"]
    ELSE ReviewLoop(listed.reviews, 1, FALSE, 0)

ReviewIdle == [pc |-> "idle"]

(* getPullRequestsForRepo on a repository with one open pull request whose  *)
(* review lookup fails or returns any list: the error of checkPRApprovals   *)
(* is only logged, and what it returned goes into the snapshot.             *)
ListWithReviews ==
    /\ reviewed.pc = "idle"
    /\ \E listed \in {[err |-> TRUE, reviews |-> <<>>]} \cup
                      {[err |-> FALSE, reviews |-> l] : l \in ReviewLists},
          draft \in BOOLEAN :
            LET r == checkPRApprovals(listed)
                answer == [err |-> FALSE,
                           list |-> <<[Number |-> 1, Draft |-> draft, Age |-> 1,
                                       ReviewCount |-> r.reviewCount, Approved |-> r.approved]>>]
            IN reviewed' = [pc |-> "done", listed |-> listed, warned |-> r.err # "nil",
                            got |-> getPullRequestsForRepo(Repos[1], answer)]
    /\ UNCHANGED <<watch, summary, load, notifierVars, github, rules, configured, now, single, batchVars>>

----------------------------------------------------------------------------
(* CheckPRs and processPRsConcurrently *)

MaxWorkers == IF DefaultConcurrency > MaxConcurrency THEN DefaultConcurrency ELSE MaxConcurrency

WorkerIds == 1..MaxWorkers

Active == 1..concurrency

(* Mutant: the escalations summed from the wrong field *)
AddWrongField(total, result) ==
    [ApprovalReminders |-> total.ApprovalReminders + result.ApprovalReminders,
     MergeReminders    |-> total.MergeReminders + result.MergeReminders,
     Escalations       |-> total.Escalations + result.MergeReminders,
     DraftOverdue      |-> total.DraftOverdue + result.DraftOverdue,
     Errors            |-> total.Errors \o result.Errors]

Add(total, result) ==
    [ApprovalReminders |-> total.ApprovalReminders + result.ApprovalReminders,
     MergeReminders    |-> total.MergeReminders + result.MergeReminders,
     Escalations       |-> total.Escalations + result.Escalations,
     DraftOverdue      |-> total.DraftOverdue + result.DraftOverdue,
     Errors            |-> total.Errors \o result.Errors]

(* Mutant: the configured worker count used as it is *)
EffectiveConcurrencyUnchecked(c) == c

(* CheckPRs: concurrency := w.config.Debug.Concurrency; if concurrency <= 0 *)
(* { concurrency = 5 }                                                      *)
EffectiveConcurrency(c) == IF c <= 0 THEN DefaultConcurrency ELSE c

(* CheckPRs up to the start of the aggregation loop: the fetch, the worker  *)
(* count, and processPRsConcurrently creating the channels and goroutines. *)
CheckPRs ==
    /\ mainPc = "idle"
    /\ \E resp \in Responses :
         LET got == GetPullRequests(resp) IN
         IF got.err # "nil"
           THEN /\ mainPc' = "failed"
                /\ answers' = resp
                /\ UNCHANGED <<prs, concurrency, prChan, prChanClosed, resultChan,
                               resultChanClosed, feeder, wpc, wpr, totalResult,
                               taken, calls, errs, outs>>
           ELSE /\ mainPc' = "aggregating"
                /\ prs' = got.prs
                /\ concurrency' = EffectiveConcurrency(configured)
                /\ prChan' = <<>>
                /\ prChanClosed' = FALSE
                /\ resultChan' = <<>>
                /\ resultChanClosed' = FALSE
                /\ feeder' = [pc |-> "run", i |-> 1]
                /\ wpc' = [w \in WorkerIds |-> IF w <= concurrency' THEN "recv" ELSE "idle"]
                /\ wpr' = [w \in WorkerIds |-> 0]
                /\ totalResult' = EmptyResult
                /\ taken' = [i \in 1..Len(got.prs) |-> 0]
                /\ calls' = [i \in 1..Len(got.prs) |-> <<>>]
                /\ errs' = [i \in 1..Len(got.prs) |-> <<>>]
                /\ outs' = [i \in 1..Len(got.prs) |-> <<>>]
                /\ answers' = resp
    /\ UNCHANGED <<watch, reviewed, summary, load, notifierVars, github, rules, configured, now, single, cancelled, notifierClosed, closePc>>

(* feeder: select { case prChan <- pr } *)
FeederSend ==
    /\ feeder.pc = "run"
    /\ feeder.i <= Len(prs)
    /\ Len(prChan) < Len(prs)
    /\ prChan' = Append(prChan, feeder.i)
    /\ feeder' = [feeder EXCEPT !.i = @ + 1]
    /\ UNCHANGED <<watch, reviewed, summary, load, notifierVars, github, rules, configured, now, single, mainPc, prs, concurrency, prChanClosed, resultChan,
                   resultChanClosed, wpc, wpr, totalResult, cancelled,
                   notifierClosed, closePc, taken, calls, errs, outs, answers>>

(* Mutant: the feeder returns on cancellation without closing prChan *)
FeederCancelledNoClose ==
    /\ feeder.pc = "run"
    /\ feeder.i <= Len(prs)
    /\ cancelled
    /\ feeder' = [feeder EXCEPT !.pc = "done"]
    /\ UNCHANGED <<watch, reviewed, summary, load, notifierVars, github, rules, configured, now, single, mainPc, prs, concurrency, prChan, resultChan,
                   resultChanClosed, wpc, wpr, totalResult, cancelled, prChanClosed,
                   notifierClosed, closePc, taken, calls, errs, outs, answers>>

(* feeder: select { case <-w.ctx.Done(): return }, with the deferred close *)
FeederCancelled ==
    /\ feeder.pc = "run"
    /\ feeder.i <= Len(prs)
    /\ cancelled
    /\ feeder' = [feeder EXCEPT !.pc = "done"]
    /\ prChanClosed' = TRUE
    /\ UNCHANGED <<watch, reviewed, summary, load, notifierVars, github, rules, configured, now, single, mainPc, prs, concurrency, prChan, resultChan,
                   resultChanClosed, wpc, wpr, totalResult, cancelled,
                   notifierClosed, closePc, taken, calls, errs, outs, answers>>

(* feeder: the loop is over, the deferred close(prChan) runs *)
FeederClose ==
    /\ feeder.pc = "run"
    /\ feeder.i > Len(prs)
    /\ feeder' = [feeder EXCEPT !.pc = "done"]
    /\ prChanClosed' = TRUE
    /\ UNCHANGED <<watch, reviewed, summary, load, notifierVars, github, rules, configured, now, single, mainPc, prs, concurrency, prChan, resultChan,
                   resultChanClosed, wpc, wpr, totalResult, cancelled,
                   notifierClosed, closePc, taken, calls, errs, outs, answers>>

(* Mutant: a receive that leaves the element in the channel *)
ReceivedPeek(ch) == ch

(* A channel after its first element was received *)
Received(ch) == Tail(ch)

(* worker: for pr := range prChan, an element is received *)
WorkerRecv(w) ==
    /\ wpc[w] = "recv"
    /\ prChan # <<>>
    /\ wpr' = [wpr EXCEPT ![w] = Head(prChan)]
    /\ prChan' = Received(prChan)
    /\ wpc' = [wpc EXCEPT ![w] = "select"]
    /\ taken' = [taken EXCEPT ![Head(prChan)] = @ + 1]
    /\ UNCHANGED <<watch, reviewed, summary, load, notifierVars, github, rules, configured, now, single, mainPc, prs, concurrency, prChanClosed, resultChan,
                   resultChanClosed, feeder, totalResult, cancelled,
                   notifierClosed, closePc, calls, errs, outs, answers>>

(* worker: range over a closed and drained prChan ends; wg.Done() *)
WorkerExit(w) ==
    /\ wpc[w] = "recv"
    /\ prChan = <<>>
    /\ prChanClosed
    /\ wpc' = [wpc EXCEPT ![w] = "exit"]
    /\ UNCHANGED <<watch, reviewed, summary, load, notifierVars, github, rules, configured, now, single, mainPc, prs, concurrency, prChan, prChanClosed,
                   resultChan, resultChanClosed, feeder, wpr, totalResult,
                   cancelled, notifierClosed, closePc, taken, calls, errs, outs, answers>>

(* Mutant: the default branch taken whatever the context says *)
SelectDefaultAlways == TRUE

(* select { case <-w.ctx.Done(): ...; default: ... }: the default branch is *)
(* taken only when the Done channel is not ready                            *)
SelectDefault == ~cancelled

(* worker: select { case <-w.ctx.Done(): return }; wg.Done() *)
WorkerCancelled(w) ==
    /\ wpc[w] = "select"
    /\ cancelled
    /\ wpc' = [wpc EXCEPT ![w] = "exit"]
    /\ UNCHANGED <<watch, reviewed, summary, load, notifierVars, github, rules, configured, now, single, mainPc, prs, concurrency, prChan, prChanClosed,
                   resultChan, resultChanClosed, feeder, wpr, totalResult,
                   cancelled, notifierClosed, closePc, taken, calls, errs, outs, answers>>

(* worker: select { default: } and processPR up to its dispatcher call.     *)
(* For a snapshot no rule matches processPR makes no call and returns at    *)
(* once, and its result is sent on resultChan.                             *)
WorkerProcess(w) ==
    /\ wpc[w] = "select"
    /\ SelectDefault
    /\ LET st == processPR(prs[wpr[w]], "nil") IN
         /\ calls' = [calls EXCEPT ![wpr[w]] = @ \o st.calls]
         /\ IF st.calls = <<>>
              THEN /\ Len(resultChan) < Len(prs)
                   /\ resultChan' = Append(resultChan, st.result)
                   /\ wpc' = [wpc EXCEPT ![w] = "recv"]
                   /\ outs' = [outs EXCEPT ![wpr[w]] = Append(@, st.result)]
              ELSE /\ wpc' = [wpc EXCEPT ![w] = "dispatch"]
                   /\ UNCHANGED <<resultChan, outs>>
    /\ UNCHANGED <<watch, reviewed, summary, load, notifierVars, github, rules, configured, now, single, mainPc, prs, concurrency, prChan,
                   prChanClosed, resultChanClosed, feeder, wpr, totalResult,
                   cancelled, notifierClosed, closePc, taken, errs, answers>>

(* What a Send* call returns: nil, or the error of the failed SMTP          *)
(* attempts; once the notifier is closed also the "closed" error, when the  *)
(* call made its closed check after Close (a call that made it before goes  *)
(* on to send).                                                             *)
DispatchOutcomes == {"nil", "smtp"} \cup (IF notifierClosed THEN {"closed"} ELSE {})

(* Mutant: the worker adds its result to the total itself *)
WorkerDispatchedAdding(w) ==
    /\ wpc[w] = "dispatch"
    /\ \E err \in DispatchOutcomes :
         LET st == processPR(prs[wpr[w]], err) IN
         /\ totalResult' = Add(totalResult, st.result)
         /\ errs' = [errs EXCEPT ![wpr[w]] = Append(@, err)]
         /\ outs' = [outs EXCEPT ![wpr[w]] = Append(@, st.result)]
    /\ wpc' = [wpc EXCEPT ![w] = "recv"]
    /\ UNCHANGED <<watch, reviewed, summary, load, notifierVars, github, rules, configured, now, single, mainPc, prs, concurrency, prChan,
                   prChanClosed, resultChanClosed, feeder, wpr, resultChan,
                   cancelled, notifierClosed, closePc, taken, calls, answers>>

(* worker: the dispatcher call returns, processPR builds its result and     *)
(* returns it, and the worker sends it: resultChan <- w.processPR(pr)       *)
WorkerDispatched(w) ==
    /\ wpc[w] = "dispatch"
    /\ Len(resultChan) < Len(prs)
    /\ \E err \in DispatchOutcomes :
         LET st == processPR(prs[wpr[w]], err) IN
         /\ resultChan' = Append(resultChan, st.result)
         /\ errs' = [errs EXCEPT ![wpr[w]] = Append(@, err)]
         /\ outs' = [outs EXCEPT ![wpr[w]] = Append(@, st.result)]
    /\ wpc' = [wpc EXCEPT ![w] = "recv"]
    /\ UNCHANGED <<watch, reviewed, summary, load, notifierVars, github, rules, configured, now, single, mainPc, prs, concurrency, prChan,
                   prChanClosed, resultChanClosed, feeder, wpr, totalResult,
                   cancelled, notifierClosed, closePc, taken, calls, answers>>

(* Mutant: resultChan closed without waiting for the workers *)
WaitAndCloseEarly ==
    /\ mainPc = "aggregating"
    /\ ~resultChanClosed
    /\ resultChanClosed' = TRUE
    /\ UNCHANGED <<watch, reviewed, summary, load, notifierVars, github, rules, configured, now, single, mainPc, prs, concurrency, prChan, prChanClosed,
                   resultChan, feeder, wpc, wpr, totalResult,
                   cancelled, notifierClosed, closePc, taken, calls, errs, outs, answers>>

(* wg.Wait() returns once every worker is done; close(resultChan) *)
WaitAndClose ==
    /\ mainPc = "aggregating"
    /\ ~resultChanClosed
    /\ \A w \in Active : wpc[w] = "exit"
    /\ resultChanClosed' = TRUE
    /\ UNCHANGED <<watch, reviewed, summary, load, notifierVars, github, rules, configured, now, single, mainPc, prs, concurrency, prChan, prChanClosed,
                   resultChan, feeder, wpc, wpr, totalResult,
                   cancelled, notifierClosed, closePc, taken, calls, errs, outs, answers>>

(* for result := range resultChan: one result is added to totalResult *)
Aggregate ==
    /\ mainPc = "aggregating"
    /\ resultChan # <<>>
    /\ totalResult' = Add(totalResult, Head(resultChan))
    /\ resultChan' = Received(resultChan)
    /\ UNCHANGED <<watch, reviewed, summary, load, notifierVars, github, rules, configured, now, single, mainPc, prs, concurrency, prChan, prChanClosed,
                   resultChanClosed, feeder, wpc, wpr,
                   cancelled, notifierClosed, closePc, taken, calls, errs, outs, answers>>

(* Mutant: an error returned when a dispatch failed, as CheckSpecificPR does *)
CheckPRsResultFirstError(results) ==
    IF Len(results.Errors) > 0 THEN "failed" ELSE "returned"

(* What CheckPRs returns once it has the results: it logs the counts and   *)
(* the errors, and returns nil.                                            *)
CheckPRsResult(results) == "returned"

(* the range ends, processPRsConcurrently returns and CheckPRs returns *)
CheckPRsReturn ==
    /\ mainPc = "aggregating"
    /\ resultChan = <<>>
    /\ resultChanClosed
    /\ mainPc' = CheckPRsResult(totalResult)
    /\ UNCHANGED <<watch, reviewed, summary, load, notifierVars, github, rules, configured, now, single, prs, concurrency, prChan, prChanClosed, resultChan,
                   resultChanClosed, feeder, wpc, wpr, totalResult,
                   cancelled, notifierClosed, closePc, taken, calls, errs, outs, answers>>

(* PRWatcher.Close: w.cancel() *)
CloseCancel ==
    /\ closePc = "idle"
    /\ cancelled' = TRUE
    /\ closePc' = "cancelled"
    /\ UNCHANGED <<watch, reviewed, summary, load, notifierVars, github, rules, configured, now, single, mainPc, prs, concurrency, prChan, prChanClosed,
                   resultChan, resultChanClosed, feeder, wpc, wpr, totalResult,
                   notifierClosed, taken, calls, errs, outs, answers>>

(* PRWatcher.Close: w.notifier.Close() *)
CloseNotifier ==
    /\ closePc = "cancelled"
    /\ mu = 0
    /\ notifierClosed' = TRUE
    /\ closePc' = "done"
    /\ UNCHANGED <<watch, reviewed, summary, load, notifierVars, github, rules, configured, now, single, mainPc, prs, concurrency, prChan, prChanClosed,
                   resultChan, resultChanClosed, feeder, wpc, wpr, totalResult,
                   cancelled, taken, calls, errs, outs, answers>>

(* main: defer prWatcher.Close() runs once CheckPRs has returned *)
DeferredClose ==
    /\ mainPc \in {"returned", "failed"}
    /\ CloseCancel

----------------------------------------------------------------------------
(* main in watch mode: a first check run, then the loop that selects on the *)
(* signal channel and on the ticker's channel.  A check run is CheckPRs up  *)
(* to CheckPRsReturn; mainPc = "idle" is main about to call CheckPRs, and   *)
(* "exited" is main having returned from the loop.                          *)

(* Not in watch mode *)
WatchOff == [on |-> FALSE, tickerC |-> 0, sigChan |-> 0, runs |-> 0]

(* sigChan := make(chan os.Signal, 1); ticker := time.NewTicker(interval);  *)
(* the first CheckPRs is about to be called                                 *)
WatchStarted == [on |-> TRUE, tickerC |-> 0, sigChan |-> 0, runs |-> 1]

(* Mutant: the select reached while the check run is in progress *)
AtSelectAnytime == watch.on /\ mainPc \in {"returned", "failed", "aggregating"}

(* main is at the select of the loop: CheckPRs has returned, nil or an error *)
AtSelect == watch.on /\ mainPc \in {"returned", "failed"}

(* The ticker fires: the tick is sent on ticker.C, whose buffer holds one;  *)
(* a tick that finds the buffer full is dropped.                            *)
TickerFires ==
    /\ watch.on
    /\ mainPc # "exited"
    /\ watch' = [watch EXCEPT !.tickerC = 1]
    /\ UNCHANGED <<reviewed, summary, load, notifierVars, github, rules, configured, now, single, batchVars>>

(* SIGINT or SIGTERM arrives: signal.Notify sends without blocking on       *)
(* sigChan, whose buffer holds one.                                         *)
Signal ==
    /\ watch.on
    /\ mainPc # "exited"
    /\ watch' = [watch EXCEPT !.sigChan = 1]
    /\ UNCHANGED <<reviewed, summary, load, notifierVars, github, rules, configured, now, single, batchVars>>

(* select { case <-ticker.C: ... prWatcher.CheckPRs() } *)
SelectTick ==
    /\ AtSelect
    /\ watch.tickerC = 1
    /\ watch.runs < MaxRuns
    /\ watch' = [watch EXCEPT !.tickerC = 0, !.runs = @ + 1]
    /\ mainPc' = "idle"
    /\ UNCHANGED <<reviewed, summary, load, notifierVars, github, rules, configured, now, single, prs, concurrency, prChan, prChanClosed,
                   resultChan, resultChanClosed, feeder, wpc, wpr, totalResult,
                   cancelled, notifierClosed, closePc, taken, calls, errs, outs, answers>>

(* select { case <-sigChan: ... return }; the deferred ticker.Stop() *)
SelectSignal ==
    /\ AtSelect
    /\ watch.sigChan = 1
    /\ watch' = [watch EXCEPT !.sigChan = 0, !.tickerC = 0]
    /\ mainPc' = "exited"
    /\ UNCHANGED <<reviewed, summary, load, notifierVars, github, rules, configured, now, single, prs, concurrency, prChan, prChanClosed,
                   resultChan, resultChanClosed, feeder, wpc, wpr, totalResult,
                   cancelled, notifierClosed, closePc, taken, calls, errs, outs, answers>>

(* main has returned from the loop: the deferred prWatcher.Close() *)
WatchDeferredClose ==
    /\ watch.on
    /\ mainPc = "exited"
    /\ CloseCancel

----------------------------------------------------------------------------
(* EmailNotifier.  Its callers are the workers inside processPR; each call  *)
(* of a Send* method is followed step by step through sendNotification.     *)
(* Time is kept relative, in milliseconds: the time since lastSent and the  *)
(* time each sleeping caller still has to sleep.                            *)

watcherVars == <<watch, reviewed, summary, load, github, rules, configured, now, single, mainPc, prs, concurrency, prChan,
                 prChanClosed, resultChan, resultChanClosed, feeder, wpc, wpr, totalResult,
                 cancelled, closePc, taken, calls, errs, outs, answers>>

TickMs == DefaultRateLimit \div 2

MaxCalls == MaxPRs

Callers == 1..MaxConcurrency

Kinds == {"ApprovalReminder", "MergeReminder", "Escalation", "DraftOverdue"}

(* setDefaults: if config.Email.RateLimit == 0 { ... = 500 * time.Millisecond } *)
SetDefaultRateLimit(r) == IF r = 0 THEN DefaultRateLimit ELSE r

(* The addresses of config.Email.To *)
ConfiguredTo == <<"to1", "to2">>

(* A slice: of the backing array of config.Email.To, or of an array of its own *)
ConfigSlice(n) == [arr |-> "config", len |-> n, own |-> <<>>]

(* The elements a slice holds when it is read *)
Elements(slice) ==
    IF slice.arr = "own" THEN slice.own ELSE SubSeq(backing, 1, slice.len)

(* A caller: its position in sendNotification, the data of its call, what  *)
(* is left of its sleep, the loop index i, and of the call in progress: how *)
(* often it passed the gate, the outcome of each DialAndSend, what it       *)
(* returns, and whether Close had returned when it began.                   *)
IdleCaller ==
    [pc |-> "idle", kind |-> "none", rec |-> ConfigSlice(0), sleep |-> 0, i |-> 0,
     gates |-> 0, outcomes |-> <<>>, ret |-> "none", afterClose |-> FALSE]

(* Mutant: the escalation address appended to config.Email.To itself *)
SendEscalationDataInPlace(esc) ==
    IF esc = "" THEN [rec |-> ConfigSlice(toLen), backing |-> backing, toLen |-> toLen]
    ELSE IF toLen < Len(backing)
        THEN [rec |-> ConfigSlice(toLen + 1),
              backing |-> [backing EXCEPT ![toLen + 1] = esc], toLen |-> toLen + 1]
        ELSE [rec |-> [arr |-> "own", len |-> toLen + 1,
                       own |-> Append(SubSeq(backing, 1, toLen), esc)],
              backing |-> backing, toLen |-> toLen]

(* SendEscalation: recipients := e.config.To; if escalationEmail != "" {     *)
(* recipients = append(recipients, escalationEmail) }.  With spare capacity *)
(* append writes the element into the backing array of config.Email.To and  *)
(* returns a longer slice of it; without, it copies into a new array.       *)
SendEscalationData(esc) ==
    IF esc = "" THEN [rec |-> ConfigSlice(toLen), backing |-> backing, toLen |-> toLen]
    ELSE IF toLen < Len(backing)
        THEN [rec |-> ConfigSlice(toLen + 1),
              backing |-> [backing EXCEPT ![toLen + 1] = esc], toLen |-> toLen]
        ELSE [rec |-> [arr |-> "own", len |-> toLen + 1,
                       own |-> Append(SubSeq(backing, 1, toLen), esc)],
              backing |-> backing, toLen |-> toLen]

(* A worker calls one of the four Send* methods, which builds the data *)
SendCall(c) ==
    /\ nc[c].pc = "idle"
    /\ ncalls < MaxCalls
    /\ ncalls' = ncalls + 1
    /\ \E kind \in Kinds :
         LET d == IF kind = "Escalation" THEN SendEscalationData(escalationEmail)
                  ELSE [rec |-> ConfigSlice(toLen), backing |-> backing, toLen |-> toLen] IN
         /\ nc' = [nc EXCEPT ![c] = [IdleCaller EXCEPT !.pc = "called", !.kind = kind,
                                                       !.rec = d.rec,
                                                       !.afterClose = notifierClosed]]
         /\ backing' = d.backing
         /\ toLen' = d.toLen
    /\ UNCHANGED <<watcherVars, notifierClosed, rateLimit, skipEmails, sinceLastSent, mu,
                   escalationEmail>>

(* Mutant: a mutex that excludes nobody *)
MuFreeAlways == TRUE

(* e.mu.Lock() succeeds *)
MuFree == mu = 0

(* sendNotification returns ret: the data of the call is dropped, what is   *)
(* kept is how the call went                                                *)
Returned(call, ret) ==
    [IdleCaller EXCEPT !.pc = "returned", !.ret = ret, !.gates = call.gates,
                       !.outcomes = call.outcomes, !.afterClose = call.afterClose]

(* Mutant: no closed check *)
ClosedCheckNone(closed) == FALSE

(* if e.closed { e.mu.Unlock(); return fmt.Errorf("email notifier is closed") } *)
ClosedCheck(closed) == closed

(* sendNotification: the closed check under the mutex, then the skipEmails  *)
(* return.  Both return without sending.                                    *)
SendClosedCheck(c) ==
    /\ nc[c].pc = "called"
    /\ MuFree
    /\ nc' = [nc EXCEPT ![c] =
                IF ClosedCheck(notifierClosed) THEN Returned(@, "closed")
                ELSE IF skipEmails THEN Returned(@, "nil")
                ELSE [@ EXCEPT !.pc = "gateLock"]]
    /\ UNCHANGED <<watcherVars, notifierClosed, rateLimit, skipEmails, sinceLastSent, mu,
                   backing, toLen, escalationEmail, ncalls>>

(* Mutant: the gate passed without waiting *)
WaitTimeNone(timeSinceLastSent) == 0

(* if timeSinceLastSent < e.rateLimit { waitTime := e.rateLimit -           *)
(* timeSinceLastSent; time.Sleep(waitTime) }                                *)
WaitTime(timeSinceLastSent) ==
    IF timeSinceLastSent < rateLimit THEN rateLimit - timeSinceLastSent ELSE 0

(* the gate: e.mu.Lock(); timeSinceLastSent := time.Since(e.lastSent); the  *)
(* caller then sleeps for the wait time, holding the mutex                  *)
GateEnter(c) ==
    /\ nc[c].pc = "gateLock"
    /\ MuFree
    /\ mu' = c
    /\ nc' = [nc EXCEPT ![c] = [@ EXCEPT !.pc = "gate", !.sleep = WaitTime(sinceLastSent)]]
    /\ UNCHANGED <<watcherVars, notifierClosed, rateLimit, skipEmails, sinceLastSent,
                   backing, toLen, escalationEmail, ncalls>>

(* the gate: the sleep is over; e.lastSent = time.Now(); e.mu.Unlock() *)
GateLeave(c) ==
    /\ nc[c].pc = "gate"
    /\ nc[c].sleep = 0
    /\ sinceLastSent' = 0
    /\ mu' = 0
    /\ nc' = [nc EXCEPT ![c] = [@ EXCEPT !.pc = "ready", !.gates = @ + 1]]
    /\ UNCHANGED <<watcherVars, notifierClosed, rateLimit, skipEmails,
                   backing, toLen, escalationEmail, ncalls>>

(* the message is built (m.SetHeader("To", data.Recipients...): the To      *)
(* header is Elements(nc[c].rec)) and the first dialer.DialAndSend(m) begins *)
BuildAndDial(c) ==
    /\ nc[c].pc = "ready"
    /\ nc' = [nc EXCEPT ![c] = [@ EXCEPT !.pc = "dial"]]
    /\ UNCHANGED <<watcherVars, notifierClosed, rateLimit, skipEmails, sinceLastSent, mu,
                   backing, toLen, escalationEmail, ncalls>>

(* body, err := e.generateEmailBody(data); if err != nil { return ... } *)
BodyFailed(c) ==
    /\ nc[c].pc = "ready"
    /\ nc' = [nc EXCEPT ![c] = Returned(@, "body")]
    /\ UNCHANGED <<watcherVars, notifierClosed, rateLimit, skipEmails, sinceLastSent, mu,
                   backing, toLen, escalationEmail, ncalls>>

(* DialAndSend succeeded: break; return nil *)
DialOk(c) ==
    /\ nc[c].pc = "dial"
    /\ nc' = [nc EXCEPT ![c] = Returned([@ EXCEPT !.outcomes = Append(@, "ok")], "nil")]
    /\ UNCHANGED <<watcherVars, notifierClosed, rateLimit, skipEmails, sinceLastSent, mu,
                   backing, toLen, escalationEmail, ncalls>>

(* Mutant: one attempt more *)
LastAttemptLate(i) == i = MaxRetries

(* if i == maxRetries-1: the attempt that failed was the last *)
LastAttempt(i) == i = MaxRetries - 1

(* DialAndSend failed: the error is returned after the last attempt, else   *)
(* time.Sleep(baseDelay * 2^i) and the next attempt                         *)
DialFailed(c) ==
    /\ nc[c].pc = "dial"
    /\ nc' = [nc EXCEPT ![c] =
                IF LastAttempt(nc[c].i)
                  THEN Returned([@ EXCEPT !.outcomes = Append(@, "fail")], "smtp")
                ELSE [@ EXCEPT !.pc = "backoff", !.sleep = BaseDelay * 2^(nc[c].i),
                               !.i = @ + 1, !.outcomes = Append(@, "fail")]]
    /\ UNCHANGED <<watcherVars, notifierClosed, rateLimit, skipEmails, sinceLastSent, mu,
                   backing, toLen, escalationEmail, ncalls>>

(* the retry delay is over: the next dialer.DialAndSend(m) begins *)
Redial(c) ==
    /\ nc[c].pc = "backoff"
    /\ nc[c].sleep = 0
    /\ nc' = [nc EXCEPT ![c] = [@ EXCEPT !.pc = "dial"]]
    /\ UNCHANGED <<watcherVars, notifierClosed, rateLimit, skipEmails, sinceLastSent, mu,
                   backing, toLen, escalationEmail, ncalls>>

(* sendNotification has returned: the Send* method returns its error to the *)
(* worker                                                                   *)
SendReturn(c) ==
    /\ nc[c].pc = "returned"
    /\ nc' = [nc EXCEPT ![c] = IdleCaller]
    /\ UNCHANGED <<watcherVars, notifierClosed, rateLimit, skipEmails, sinceLastSent, mu,
                   backing, toLen, escalationEmail, ncalls>>

(* Time passes: by one step of the clock while the rate limit is running,  *)
(* or by what a sleeping caller still has to sleep.  time.Sleep pauses for  *)
(* at least the duration asked: the sleep in the gate is counted down step  *)
(* by step, the much longer retry delay ends with a step of time that       *)
(* covers it (it lasts longer when shorter steps came first).               *)
Tick ==
    /\ \E d \in (IF sinceLastSent < rateLimit THEN {TickMs} ELSE {}) \cup
                {nc[c].sleep : c \in {e \in Callers : nc[e].sleep > 0}} :
         /\ sinceLastSent' = IF sinceLastSent + d < rateLimit THEN sinceLastSent + d
                             ELSE rateLimit
         /\ nc' = [c \in Callers |->
                     [nc[c] EXCEPT !.sleep = IF @ <= d THEN 0
                                             ELSE IF nc[c].pc = "backoff" THEN @
                                             ELSE @ - d]]
    /\ UNCHANGED <<watcherVars, notifierClosed, rateLimit, skipEmails, mu,
                   backing, toLen, escalationEmail, ncalls>>

(* main: cfg, err := config.Load of the configuration file's name *)
Load ==
    /\ load.pc = "unloaded"
    /\ \E source \in {"file", "env"}, given \in ConfigInputs :
         LET got == IF source = "file" THEN LoadFile(given) ELSE LoadEnv(given) IN
         /\ load' = [pc |-> IF got.err THEN "error" ELSE "loaded",
                     source |-> source, given |-> given]
         /\ rules' = got.rules
    /\ UNCHANGED <<watch, reviewed, summary, notifierVars, github, configured, now, single, batchVars>>

----------------------------------------------------------------------------
(* Specifications *)

(* The configuration was loaded from a file that sets none of the thresholds *)
LoadedDefaults == [pc |-> "loaded", source |-> "file", given |-> NoInput]

Unloaded == [pc |-> "unloaded", source |-> "none", given |-> NoInput]

(* NewEmailNotifier: lastSent: time.Now().Add(-cfg.RateLimit) *)
InitNotifier ==
    /\ sinceLastSent = rateLimit
    /\ mu = 0
    /\ nc = [c \in Callers |-> IdleCaller]
    /\ ncalls = 0

(* A notifier nobody calls, configured with the defaults *)
InitNotifierIdle ==
    /\ rateLimit = SetDefaultRateLimit(0)
    /\ skipEmails = FALSE
    /\ backing = SubSeq(ConfiguredTo, 1, 1)
    /\ toLen = 1
    /\ escalationEmail = ""
    /\ InitNotifier

DefaultRules == LoadFile(NoInput).rules

InitBatch ==
    /\ mainPc = "idle"
    /\ prs = <<>>
    /\ concurrency = 0
    /\ prChan = <<>>
    /\ prChanClosed = FALSE
    /\ resultChan = <<>>
    /\ resultChanClosed = FALSE
    /\ feeder = [pc |-> "idle", i |-> 1]
    /\ wpc = [w \in WorkerIds |-> "idle"]
    /\ wpr = [w \in WorkerIds |-> 0]
    /\ totalResult = EmptyResult
    /\ cancelled = FALSE
    /\ notifierClosed = FALSE
    /\ closePc = "idle"
    /\ taken = <<>>
    /\ calls = <<>>
    /\ errs = <<>>
    /\ outs = <<>>
    /\ answers = <<>>

(* One check run of a watcher configured with the defaults of setDefaults *)
Init ==
    /\ watch = WatchOff
    /\ reviewed = ReviewIdle
    /\ summary = SummaryIdle
    /\ load = LoadedDefaults
    /\ InitNotifierIdle
    /\ github = GitHub
    /\ rules = DefaultRules
    /\ configured \in 1..MaxConcurrency
    /\ now = DefaultDraftTime + DefaultMergeTime
    /\ single = SingleIdle
    /\ InitBatch

(* The program as main runs it: one check run, then the deferred Close.    *)
(* The context is never cancelled while the run is in progress, so the     *)
(* cancellation branches of the feeder and of the workers are never taken. *)
Next ==
    \/ CheckPRs
    \/ FeederSend
    \/ FeederClose
    \/ \E w \in WorkerIds : WorkerRecv(w)
    \/ \E w \in WorkerIds : WorkerExit(w)
    \/ \E w \in WorkerIds : WorkerProcess(w)
    \/ \E w \in WorkerIds : WorkerDispatched(w)
    \/ WaitAndClose
    \/ Aggregate
    \/ CheckPRsReturn
    \/ DeferredClose
    \/ CloseNotifier

Spec == Init /\ [][Next]_vars

(* The watcher as a component: Close may be called at any moment, also     *)
(* while a check run is in progress.                                       *)
NextCancel ==
    \/ CheckPRs
    \/ FeederSend
    \/ FeederCancelled
    \/ FeederClose
    \/ \E w \in WorkerIds : WorkerRecv(w)
    \/ \E w \in WorkerIds : WorkerExit(w)
    \/ \E w \in WorkerIds : WorkerCancelled(w)
    \/ \E w \in WorkerIds : WorkerProcess(w)
    \/ \E w \in WorkerIds : WorkerDispatched(w)
    \/ WaitAndClose
    \/ Aggregate
    \/ CheckPRsReturn
    \/ CloseCancel
    \/ CloseNotifier

SpecCancel == Init /\ [][NextCancel]_vars

(* main in watch mode, on the three pull requests that each get a          *)
(* notification, with one and with two workers                             *)
InitWatch ==
    /\ watch = WatchStarted
    /\ reviewed = ReviewIdle
    /\ summary = SummaryIdle
    /\ load = LoadedDefaults
    /\ InitNotifierIdle
    /\ github = GitHubSmall
    /\ rules = DefaultRules
    /\ configured \in 1..MaxConcurrency
    /\ now = DefaultDraftTime + DefaultMergeTime
    /\ single = SingleIdle
    /\ InitBatch

NextWatch ==
    \/ CheckPRs
    \/ FeederSend
    \/ FeederClose
    \/ \E w \in WorkerIds : WorkerRecv(w)
    \/ \E w \in WorkerIds : WorkerExit(w)
    \/ \E w \in WorkerIds : WorkerProcess(w)
    \/ \E w \in WorkerIds : WorkerDispatched(w)
    \/ WaitAndClose
    \/ Aggregate
    \/ CheckPRsReturn
    \/ TickerFires
    \/ Signal
    \/ SelectTick
    \/ SelectSignal
    \/ WatchDeferredClose
    \/ CloseNotifier

SpecWatch == InitWatch /\ [][NextWatch]_vars

(* A check run with Close at any moment, under a fair scheduler: every     *)
(* goroutine that can take a step eventually takes one, and every          *)
(* dispatcher call returns.  Close is called or not, at any moment.        *)
InitLive ==
    /\ watch = WatchOff
    /\ reviewed = ReviewIdle
    /\ summary = SummaryIdle
    /\ load = LoadedDefaults
    /\ InitNotifierIdle
    /\ github = GitHubSmall
    /\ rules = DefaultRules
    /\ configured \in 1..MaxConcurrency
    /\ now = DefaultDraftTime + DefaultMergeTime
    /\ single = SingleIdle
    /\ InitBatch

FeederStep == FeederSend \/ FeederCancelled \/ FeederClose

WorkerSteps(w) ==
    WorkerRecv(w) \/ WorkerExit(w) \/ WorkerCancelled(w) \/ WorkerProcess(w) \/ WorkerDispatched(w)

Fairness ==
    /\ WF_vars(FeederStep)
    /\ \A w \in WorkerIds : WF_vars(WorkerSteps(w))
    /\ WF_vars(WaitAndClose)
    /\ WF_vars(Aggregate \/ CheckPRsReturn)

SpecLive == InitLive /\ [][NextCancel]_vars /\ Fairness

(* The worker pool for every configured worker count, zero and negative    *)
(* included, on repositories whose pull requests all need a notification.  *)
InitPool ==
    /\ watch = WatchOff
    /\ reviewed = ReviewIdle
    /\ summary = SummaryIdle
    /\ load = LoadedDefaults
    /\ InitNotifierIdle
    /\ github = GitHubSmall
    /\ rules = DefaultRules
    /\ configured \in -1..MaxConcurrency
    /\ now = DefaultDraftTime + DefaultMergeTime
    /\ single = SingleIdle
    /\ InitBatch

SpecPool == InitPool /\ [][Next]_vars

(* The notifier called concurrently by the workers, for a configured rate  *)
(* limit of zero (the default is applied) and of one clock step, recipient *)
(* slices with and without spare capacity, and with and without an         *)
(* escalation address.                                                     *)
InitSend ==
    /\ \E r \in {0, TickMs} : rateLimit = SetDefaultRateLimit(r)
    /\ skipEmails \in BOOLEAN
    /\ toLen = 1
    /\ \E cap \in {toLen, toLen + 1} :
          backing = [k \in 1..cap |-> IF k <= toLen THEN ConfiguredTo[k] ELSE ""]
    /\ escalationEmail \in {"", "esc"}
    /\ InitNotifier
    /\ watch = WatchOff
    /\ reviewed = ReviewIdle
    /\ summary = SummaryIdle
    /\ load = LoadedDefaults
    /\ github = GitHub
    /\ rules = DefaultRules
    /\ configured = MaxConcurrency
    /\ now = DefaultDraftTime + DefaultMergeTime
    /\ single = SingleIdle
    /\ InitBatch

NextSend ==
    \/ \E c \in Callers : SendCall(c)
    \/ \E c \in Callers : SendClosedCheck(c)
    \/ \E c \in Callers : GateEnter(c)
    \/ \E c \in Callers : GateLeave(c)
    \/ \E c \in Callers : BuildAndDial(c)
    \/ \E c \in Callers : BodyFailed(c)
    \/ \E c \in Callers : DialOk(c)
    \/ \E c \in Callers : DialFailed(c)
    \/ \E c \in Callers : Redial(c)
    \/ \E c \in Callers : SendReturn(c)
    \/ Tick

SpecSend == InitSend /\ [][NextSend]_vars

(* The notifier called by the workers while PRWatcher.Close runs at any    *)
(* moment: with the default rate limit, with and without skipEmails.       *)
InitClose ==
    /\ rateLimit = SetDefaultRateLimit(0)
    /\ skipEmails \in BOOLEAN
    /\ backing = SubSeq(ConfiguredTo, 1, 1)
    /\ toLen = 1
    /\ escalationEmail = ""
    /\ InitNotifier
    /\ watch = WatchOff
    /\ reviewed = ReviewIdle
    /\ summary = SummaryIdle
    /\ load = LoadedDefaults
    /\ github = GitHub
    /\ rules = DefaultRules
    /\ configured = MaxConcurrency
    /\ now = DefaultDraftTime + DefaultMergeTime
    /\ single = SingleIdle
    /\ InitBatch

NextClose ==
    \/ \E c \in Callers : SendCall(c)
    \/ \E c \in Callers : SendClosedCheck(c)
    \/ \E c \in Callers : GateEnter(c)
    \/ \E c \in Callers : GateLeave(c)
    \/ \E c \in Callers : BuildAndDial(c)
    \/ \E c \in Callers : BodyFailed(c)
    \/ \E c \in Callers : DialOk(c)
    \/ \E c \in Callers : DialFailed(c)
    \/ \E c \in Callers : Redial(c)
    \/ \E c \in Callers : SendReturn(c)
    \/ Tick
    \/ CloseCancel
    \/ CloseNotifier

SpecClose == InitClose /\ [][NextClose]_vars

(* Loading the configuration, from a file and from the environment *)
InitLoad ==
    /\ watch = WatchOff
    /\ reviewed = ReviewIdle
    /\ summary = SummaryIdle
    /\ load = Unloaded
    /\ rules = ZeroRules
    /\ InitNotifierIdle
    /\ github = GitHub
    /\ configured = 1
    /\ now = MaxAge
    /\ single = SingleIdle
    /\ InitBatch

NextLoad == Load

SpecLoad == InitLoad /\ [][NextLoad]_vars

(* processPR alone, on every snapshot under every setting of the thresholds *)
InitPR ==
    /\ watch = WatchOff
    /\ reviewed = ReviewIdle
    /\ summary = SummaryIdle
    /\ load = LoadedDefaults
    /\ InitNotifierIdle
    /\ github = GitHub
    /\ rules \in ThresholdSettings
    /\ configured = 1
    /\ now = MaxAge
    /\ single = SingleIdle
    /\ InitBatch

NextPR == CheckSpecificPR

SpecPR == InitPR /\ [][NextPR]_vars

(* The review lookup of one listed pull request alone *)
NextReviews == ListWithReviews

SpecReviews == Init /\ [][NextReviews]_vars

(* GetPRSummary alone, on every snapshot under every setting of the thresholds *)
NextSummary == GetPRSummary

SpecSummary == InitPR /\ [][NextSummary]_vars

----------------------------------------------------------------------------
(* Claims about processPR, checked under SpecPR *)

Ops(cs) == {cs[k].op : k \in 1..Len(cs)}

SendOps == {"SendApprovalReminder", "SendMergeReminder", "SendEscalation", "SendDraftOverdue"}

(* C1: for every snapshot and every setting of the thresholds processPR     *)
(* makes at most one dispatcher call, of one of the four kinds, and the     *)
(* result it returns has counters plus errors summing to 0 or 1, namely to  *)
(* the number of calls made.                                                *)
Thm_C1_OneAction ==
    single.pc = "done" =>
        /\ Len(single.calls) <= 1
        /\ Ops(single.calls) \subseteq SendOps
        /\ Counters(single.result) + Len(single.result.Errors) \in {0, 1}
        /\ Counters(single.result) + Len(single.result.Errors) = Len(single.calls)

(* a non-draft past the merge time that also qualifies for an approval reminder *)
Wit_C1 ==
    /\ single.pc = "done"
    /\ ~single.pr.Draft
    /\ single.age >= rules.MergeTime
    /\ single.age >= rules.ApprovalTime
    /\ single.pr.ReviewCount < 2
    /\ Len(single.calls) = 1
    /\ Len(single.result.Errors) = 1

(* C2: for a draft, whatever its age and review count, processPR calls      *)
(* nothing but SendDraftOverdue, and calls it exactly when age >= draftTime. *)
Thm_C2_DraftPrecedence ==
    (single.pc = "done" /\ single.pr.Draft) =>
        /\ Ops(single.calls) \subseteq {"SendDraftOverdue"}
        /\ (single.age >= rules.DraftTime) <=> (Len(single.calls) = 1)
        /\ (single.age < rules.DraftTime) <=> (single.calls = <<>>)

(* a draft exactly at the draft threshold, old enough for every other rule *)
Wit_C2 ==
    /\ single.pc = "done"
    /\ single.pr.Draft
    /\ single.age = rules.DraftTime
    /\ single.age >= rules.MergeTime
    /\ single.age >= rules.ApprovalTime
    /\ Ops(single.calls) = {"SendDraftOverdue"}

(* C3: for a non-draft with age >= mergeTime processPR attempts an           *)
(* escalation and nothing else, for every review count and every ordering  *)
(* of the thresholds.                                                      *)
Thm_C3_EscalationPrecedence ==
    (single.pc = "done" /\ ~single.pr.Draft /\ single.age >= rules.MergeTime) =>
        /\ Len(single.calls) = 1
        /\ single.calls[1].op = "SendEscalation"

(* escalation where the merge reminder threshold is not below the merge     *)
(* time and the reviews would qualify for a merge reminder                  *)
Wit_C3 ==
    /\ single.pc = "done"
    /\ ~single.pr.Draft
    /\ single.age >= rules.MergeReminderTime
    /\ rules.MergeReminderTime >= rules.MergeTime
    /\ rules.ApprovalTime > rules.MergeTime
    /\ single.pr.ReviewCount >= 2
    /\ Ops(single.calls) = {"SendEscalation"}

(* C4: for a non-draft with age < mergeTime processPR attempts an approval  *)
(* reminder iff review count < 2 and age >= approvalTime, a merge reminder  *)
(* iff review count >= 2 and age >= mergeReminderTime, and nothing          *)
(* otherwise; the Approved flag plays no part.                              *)
Thm_C4_Reminders ==
    (single.pc = "done" /\ ~single.pr.Draft /\ single.age < rules.MergeTime) =>
        /\ Len(single.calls) <= 1
        /\ Ops(single.calls) \subseteq {"SendApprovalReminder", "SendMergeReminder"}
        /\ ("SendApprovalReminder" \in Ops(single.calls)) <=>
              (single.pr.ReviewCount < 2 /\ single.age >= rules.ApprovalTime)
        /\ ("SendMergeReminder" \in Ops(single.calls)) <=>
              (single.pr.ReviewCount >= 2 /\ single.age >= rules.MergeReminderTime)

(* an approved pull request with a single review still gets the approval reminder *)
Wit_C4 ==
    /\ single.pc = "done"
    /\ ~single.pr.Draft
    /\ single.age < rules.MergeTime
    /\ single.pr.Approved
    /\ single.pr.ReviewCount = 1
    /\ Ops(single.calls) = {"SendApprovalReminder"}

----------------------------------------------------------------------------
(* Claims about a batch run, checked under Spec *)

Idx == DOMAIN prs

(* The rule table: the action kind a snapshot is classified as *)
RuleKind(pr) ==
    LET age == Since(pr.CreatedAt) IN
    IF pr.Draft THEN (IF age >= rules.DraftTime THEN "DraftOverdue" ELSE "None")
    ELSE IF age >= rules.MergeTime THEN "Escalation"
    ELSE IF pr.ReviewCount < 2 /\ age >= rules.ApprovalTime THEN "ApprovalReminder"
    ELSE IF pr.ReviewCount >= 2 /\ age >= rules.MergeReminderTime THEN "MergeReminder"
    ELSE "None"

NotNone == {i \in Idx : RuleKind(prs[i]) # "None"}

(* The snapshots with a dispatcher call that returned an error *)
FailedDispatch == {i \in Idx : \E k \in 1..Len(errs[i]) : errs[i][k] # "nil"}

(* The snapshots with a call of dispatcher operation op that returned nil *)
Succeeded(op) ==
    {i \in Idx : \E k \in 1..Len(errs[i]) : calls[i][k].op = op /\ errs[i][k] = "nil"}

Dispatched == {i \in Idx : calls[i] # <<>>}

(* The snapshots whose processPR call completed *)
Completed == {i \in Idx : outs[i] # <<>>}

(* The snapshots a worker took and dropped on observing the cancellation *)
Dropped ==
    {i \in Idx : outs[i] = <<>> /\ \E w \in Active : wpc[w] = "exit" /\ wpr[w] = i}

(* C5: after a batch run in which no dispatch call fails the four counters *)
(* sum to the number of input snapshots whose classification is not None,   *)
(* and the error list is empty.                                             *)
Thm_C5_CountConservation ==
    (mainPc = "returned" /\ FailedDispatch = {}) =>
        /\ Counters(totalResult) = Cardinality(NotNone)
        /\ totalResult.Errors = <<>>

(* two workers, two escalations and no failure *)
Wit_C5 ==
    /\ mainPc = "returned"
    /\ concurrency = 2
    /\ FailedDispatch = {}
    /\ totalResult.Escalations = 2

(* C6: in the returned result each counter is the number of snapshots whose *)
(* dispatch of that kind succeeded, the error list has one entry per failed *)
(* dispatch (tagged with that snapshot's kind and number), and a failed     *)
(* dispatch counts nowhere: successes = dispatched - failed.                *)
Thm_C6_FailuresCounted ==
    mainPc = "returned" =>
        /\ totalResult.ApprovalReminders = Cardinality(Succeeded("SendApprovalReminder"))
        /\ totalResult.MergeReminders = Cardinality(Succeeded("SendMergeReminder"))
        /\ totalResult.Escalations = Cardinality(Succeeded("SendEscalation"))
        /\ totalResult.DraftOverdue = Cardinality(Succeeded("SendDraftOverdue"))
        /\ Len(totalResult.Errors) = Cardinality(FailedDispatch)
        /\ \A i \in FailedDispatch :
              \E k \in 1..Len(totalResult.Errors) :
                  /\ totalResult.Errors[k].number = prs[i].Number
                  /\ totalResult.Errors[k].cause = errs[i][1]
        /\ Counters(totalResult) = Cardinality(Dispatched) - Cardinality(FailedDispatch)

(* one failure among two dispatched snapshots: one success and one error *)
Wit_C6 ==
    /\ mainPc = "returned"
    /\ Cardinality(Dispatched) = 2
    /\ Cardinality(FailedDispatch) = 1
    /\ Counters(totalResult) = 1
    /\ Len(totalResult.Errors) = 1

(* C7: dispatch failures do not stop the batch: at the return every input  *)
(* snapshot has been processed, and dispatched when a rule matches it,      *)
(* however many dispatches failed; and CheckPRs returns an error only when  *)
(* the fetch failed.                                                        *)
Thm_C7_FailureIsolation ==
    /\ mainPc = "returned" =>
          /\ Completed = Idx
          /\ Dispatched = NotNone
    /\ mainPc = "failed" => (\E r \in DOMAIN answers : answers[r].err)
    /\ (mainPc \in {"returned", "failed"} /\ \A r \in DOMAIN answers : ~answers[r].err)
          => mainPc = "returned"

(* one worker: the first snapshot's dispatch failed, the second was still sent *)
Wit_C7 ==
    /\ mainPc = "returned"
    /\ concurrency = 1
    /\ Len(prs) = 2
    /\ errs[1] = <<"smtp">>
    /\ errs[2] = <<"nil">>

(* C8: each snapshot is received by a worker at most once and held by one   *)
(* worker at a time; a processed snapshot got exactly one dispatcher call   *)
(* if it is classified non-None and none otherwise; no snapshot is          *)
(* processed or dispatched twice.                                           *)
Thm_C8_OneDispatch ==
    \A i \in Idx :
        /\ taken[i] <= 1
        /\ Cardinality({w \in Active : wpc[w] \in {"select", "dispatch"} /\ wpr[w] = i}) <= 1
        /\ Len(calls[i]) <= 1
        /\ Len(outs[i]) <= 1
        /\ RuleKind(prs[i]) = "None" => calls[i] = <<>>
        /\ (i \in Completed /\ RuleKind(prs[i]) # "None") => Len(calls[i]) = 1

(* a returned two-worker run in which each worker took a different         *)
(* snapshot: one matched no rule, the other got its one dispatcher call    *)
Wit_C8 ==
    /\ mainPc = "returned"
    /\ concurrency = 2
    /\ Len(prs) = 2
    /\ wpr[1] # wpr[2] /\ wpr[1] # 0 /\ wpr[2] # 0
    /\ \E i \in Idx : RuleKind(prs[i]) = "None" /\ i \in Completed
    /\ \E i \in Idx : Len(calls[i]) = 1 /\ i \in Completed

(* C9: when the fetch fails CheckPRs returns the error at once: no worker   *)
(* or feeder was started, nothing was classified or dispatched and there is *)
(* no result; and GetPullRequests fails, returning no list, whenever one    *)
(* repository fails.                                                        *)
Thm_C9_FetchFailure ==
    /\ mainPc = "failed" =>
          /\ \A w \in WorkerIds : wpc[w] = "idle"
          /\ feeder.pc = "idle"
          /\ prs = <<>> /\ calls = <<>> /\ outs = <<>>
          /\ resultChan = <<>> /\ totalResult = EmptyResult
    /\ (\E r \in DOMAIN answers : answers[r].err) => (mainPc = "failed" /\ prs = <<>>)

(* the first repository listed pull requests, the second failed *)
Wit_C9 ==
    /\ mainPc = "failed"
    /\ ~answers[1].err
    /\ Len(answers[1].list) > 0
    /\ answers[2].err

Last(q) == q[Len(q)]

(* C10, every step of a run: a worker at the select of a cancelled context  *)
(* does not process the snapshot it holds; a worker that exited stays out;  *)
(* a dispatch in progress ends only by processPR returning a result that is *)
(* sent on resultChan, cancelled or not; and at the return the result holds *)
(* exactly the outcomes of the completed snapshots, a dropped snapshot      *)
(* having no dispatcher call, no count and no error.                        *)
C10Step ==
    /\ \A w \in WorkerIds :
          /\ (cancelled /\ wpc[w] = "select") =>
                /\ wpc'[w] \in {"select", "exit"}
                /\ calls'[wpr[w]] = calls[wpr[w]]
                /\ outs'[wpr[w]] = outs[wpr[w]]
          /\ wpc[w] = "exit" => wpc'[w] = "exit"
          /\ (wpc[w] = "dispatch" /\ wpc'[w] # "dispatch") =>
                /\ Len(outs'[wpr[w]]) = Len(outs[wpr[w]]) + 1
                /\ resultChan' = Append(resultChan, Last(outs'[wpr[w]]))
                /\ Counters(Last(resultChan')) + Len(Last(resultChan').Errors) = 1
    /\ mainPc' = "returned" =>
          /\ totalResult'.ApprovalReminders =
                Cardinality({i \in Completed' : outs'[i][1].ApprovalReminders = 1})
          /\ totalResult'.MergeReminders =
                Cardinality({i \in Completed' : outs'[i][1].MergeReminders = 1})
          /\ totalResult'.Escalations =
                Cardinality({i \in Completed' : outs'[i][1].Escalations = 1})
          /\ totalResult'.DraftOverdue =
                Cardinality({i \in Completed' : outs'[i][1].DraftOverdue = 1})
          /\ Len(totalResult'.Errors) =
                Cardinality({i \in Completed' : outs'[i][1].Errors # <<>>})
          /\ \A i \in Dropped' : calls'[i] = <<>> /\ errs'[i] = <<>>
          /\ \A k \in 1..Len(totalResult'.Errors) :
                \E i \in Completed' : totalResult'.Errors[k] \in
                    {outs'[i][1].Errors[j] : j \in 1..Len(outs'[i][1].Errors)}

Thm_C10_Cancellation == [][C10Step]_vars

(* the context is cancelled while one worker's dispatch is in progress and  *)
(* another worker has dropped the snapshot it had taken                     *)
Wit_C10 ==
    /\ cancelled
    /\ \E w \in Active : wpc[w] = "dispatch"
    /\ Dropped # {}

(* Every result a processPR call returned: snapshot and position in outs *)
Produced == UNION {{<<i, k>> : k \in 1..Len(outs[i])} : i \in Idx}

ResultOf(p) == outs[p[1]][p[2]]

(* C11: when processPRsConcurrently has returned every worker has exited   *)
(* (none is inside processPR or holds a snapshot to process), resultChan is *)
(* closed and empty, and the total holds every result a worker produced     *)
(* exactly once.                                                            *)
Thm_C11_ReturnAfterWorkers ==
    mainPc = "returned" =>
        /\ \A w \in Active : wpc[w] = "exit"
        /\ resultChan = <<>> /\ resultChanClosed
        /\ totalResult.ApprovalReminders =
              Cardinality({p \in Produced : ResultOf(p).ApprovalReminders = 1})
        /\ totalResult.MergeReminders =
              Cardinality({p \in Produced : ResultOf(p).MergeReminders = 1})
        /\ totalResult.Escalations =
              Cardinality({p \in Produced : ResultOf(p).Escalations = 1})
        /\ totalResult.DraftOverdue =
              Cardinality({p \in Produced : ResultOf(p).DraftOverdue = 1})
        /\ Len(totalResult.Errors) =
              Cardinality({p \in Produced : Len(ResultOf(p).Errors) = 1})
        /\ \A p \in Produced :
              Counters(ResultOf(p)) + Len(ResultOf(p).Errors) <= 1

(* both workers of a two-worker run produced a result, one of them an error *)
Wit_C11 ==
    /\ mainPc = "returned"
    /\ concurrency = 2
    /\ wpr[1] # 0 /\ wpr[2] # 0 /\ wpr[1] # wpr[2]
    /\ Cardinality(Produced) = 2
    /\ Len(totalResult.Errors) = 1
    /\ Counters(totalResult) = 1

(* The tag of an error entry: the text before the wrapped error *)
TagOf(e) == [kind |-> e.kind, number |-> e.number]

(* C15 as stated: the error entries of two failed dispatches for different  *)
(* pull requests (repository plus number) or of different kinds carry       *)
(* different tags.                                                          *)
Orig_C15_ErrorTags ==
    mainPc = "returned" =>
        \A i \in FailedDispatch : \A j \in FailedDispatch :
            (\/ <<prs[i].Repo, prs[i].Number>> # <<prs[j].Repo, prs[j].Number>>
             \/ RuleKind(prs[i]) # RuleKind(prs[j]))
                => TagOf(outs[i][1].Errors[1]) # TagOf(outs[j][1].Errors[1])

(* A step of a worker or of the feeder, and a step of the loop that drains  *)
(* resultChan                                                               *)
WorkerStep == mainPc = "aggregating" /\ (wpc' # wpc \/ wpr' # wpr \/ feeder' # feeder)

DrainStep ==
    /\ mainPc = "aggregating"
    /\ resultChan # <<>>
    /\ resultChan' = Tail(resultChan)
    /\ wpc' = wpc /\ wpr' = wpr /\ feeder' = feeder

C20Step ==
    /\ WorkerStep =>
          /\ totalResult' = totalResult
          /\ \/ resultChan' = resultChan
             \/ /\ Len(resultChan') = Len(resultChan) + 1
                /\ SubSeq(resultChan', 1, Len(resultChan)) = resultChan
    /\ (mainPc = "aggregating" /\ totalResult' # totalResult) =>
          /\ DrainStep
          /\ totalResult' = Add(totalResult, Head(resultChan))

(* C20: during a batch run the total is written by one task only. A step   *)
(* of a worker (or of the feeder) leaves the total as it is and at most     *)
(* sends one result on resultChan; every step that changes the total is a   *)
(* step of the loop that drains resultChan, which takes the head of the     *)
(* channel and adds it, so each write is one step of that one loop and no   *)
(* two writes overlap.                                                      *)
Thm_C20_SingleWriter == [][C20Step]_vars

(* The loop has added a result to the total while a worker is still inside  *)
(* processPR                                                                *)
Wit_C20 ==
    /\ mainPc = "aggregating"
    /\ totalResult # EmptyResult
    /\ \E w \in Active : wpc[w] = "dispatch"

----------------------------------------------------------------------------
(* Claims about the review lookup, checked under SpecReviews *)

(* C18: for every list of reviews the review count of the snapshot is the   *)
(* number of reviews whose state is not COMMENTED, and the snapshot is       *)
(* approved iff some review is APPROVED; when the lookup fails the pull      *)
(* request is still returned, with review count 0 and not approved.          *)
Thm_C18_ReviewCount ==
    reviewed.pc = "done" =>
        /\ reviewed.got.err = "nil"
        /\ Len(reviewed.got.prs) = 1
        /\ LET pr == reviewed.got.prs[1]
               reviews == reviewed.listed.reviews IN
           IF reviewed.listed.err
             THEN pr.ReviewCount = 0 /\ ~pr.Approved
             ELSE /\ pr.ReviewCount =
                        Cardinality({i \in 1..Len(reviews) : reviews[i] # "COMMENTED"})
                  /\ pr.Approved <=> \E i \in 1..Len(reviews) : reviews[i] = "APPROVED"

(* A comment, a request for changes and an approval: counted 2, approved *)
Wit_C18 ==
    /\ reviewed.pc = "done"
    /\ ~reviewed.listed.err
    /\ reviewed.listed.reviews = <<"COMMENTED", "CHANGES_REQUESTED", "APPROVED">>
    /\ reviewed.got.prs[1].ReviewCount = 2
    /\ reviewed.got.prs[1].Approved

----------------------------------------------------------------------------
(* Claims about GetPRSummary, checked under SpecSummary *)

Orig_C24_SummaryAgrees ==
    summary.pc = "done" =>
        \A k \in 1..Len(summary.fetched) :
            LET attempted == Ops(processPR(summary.fetched[k], "nil").calls)
                status == summary.result.PRs[k].Status IN
            /\ status = "Needs Escalation" <=> "SendEscalation" \in attempted
            /\ status = "Draft Overdue" <=> "SendDraftOverdue" \in attempted

----------------------------------------------------------------------------
(* Claims about the configuration, checked under SpecLoad *)

(* C16 as stated: with no approval time and no merge time configured the    *)
(* approval threshold is 24 hours and the merge threshold 72 hours, from a  *)
(* file and from the environment alike.                                     *)
Orig_C16_Defaults ==
    (load.pc = "loaded" /\ load.given.approval = Unset /\ load.given.merge = Unset) =>
        /\ rules.ApprovalTime = 24
        /\ rules.MergeTime = 72

----------------------------------------------------------------------------
(* Claims about the size of the worker pool, checked under SpecPool *)

(* The workers inside processPR *)
InProcessPR == {w \in WorkerIds : wpc[w] = "dispatch"}

(* C12: the worker count is the configured concurrency, or 5 when that is   *)
(* zero or negative; exactly that many workers are started, and never more  *)
(* snapshots than that are inside processPR at the same time.               *)
Thm_C12_WorkerBound ==
    LET N == IF configured <= 0 THEN 5 ELSE configured IN
    /\ Cardinality(InProcessPR) <= N
    /\ mainPc \in {"aggregating", "returned"} =>
          /\ concurrency = N
          /\ {w \in WorkerIds : wpc[w] # "idle"} = 1..N
    /\ \A w \in InProcessPR : \A v \in InProcessPR : wpr[w] = wpr[v] => w = v

(* no concurrency configured: five workers, two of them inside processPR *)
Wit_C12 ==
    /\ configured <= 0
    /\ concurrency = 5
    /\ Cardinality(InProcessPR) = 2

----------------------------------------------------------------------------
(* Claims about the notifier, checked under SpecSend *)

(* The callers inside the rate-limit gate: between the Lock and the Unlock  *)
(* around the read and the write of lastSent                                *)
InGate == {c \in Callers : nc[c].pc = "gate"}

(* The callers with a DialAndSend in progress *)
Dialing == {c \in Callers : nc[c].pc = "dial"}

(* C13, every step: a notification leaves the gate (writes lastSent) only   *)
(* when at least rateLimit has passed since the previous passage; while a   *)
(* caller is inside the gate nobody else writes lastSent or is inside the   *)
(* gate, so the wait it computed is from the value its own write replaces;  *)
(* and an unconfigured rate limit is 500 ms.                                *)
C13Step ==
    /\ \A c \in Callers :
          /\ (nc[c].pc = "gate" /\ nc'[c].pc = "ready") =>
                /\ sinceLastSent >= rateLimit
                /\ sinceLastSent' = 0
          /\ (nc[c].pc = "gate" /\ nc'[c].pc = "gate") => sinceLastSent' >= sinceLastSent
          /\ nc[c].pc = "gate" => mu = c
    /\ Cardinality(InGate) <= 1
    /\ sinceLastSent' < sinceLastSent => (\E c \in InGate : nc'[c].pc = "ready")
    /\ SetDefaultRateLimit(0) = 500
    /\ rateLimit > 0

Thm_C13_RateLimit == [][C13Step]_vars

(* one worker's notification has just passed the gate and is being sent;   *)
(* the other worker's sleeps in the gate for the rest of the default rate   *)
(* limit                                                                    *)
Wit_C13 ==
    /\ nc[2].pc = "dial"
    /\ nc[1].pc = "gate"
    /\ nc[1].sleep > 0
    /\ sinceLastSent < rateLimit
    /\ rateLimit = DefaultRateLimit

(* C14 as stated: at no time are two SMTP send attempts in progress *)
Orig_C14_SerializedSends == Cardinality(Dialing) <= 1

(* C14, amended: the gate serializes the rate-limit step, not the sends: at *)
(* no time are two notifications inside the gate, the one inside holds the  *)
(* mutex, and a send attempt is in progress only outside the gate.          *)
Thm_C14_GateSerialized ==
    /\ Cardinality(InGate) <= 1
    /\ \A c \in Callers : (nc[c].pc = "gate") <=> (mu = c)
    /\ \A c \in Dialing : mu # c

(* a retry attempt of one notification is in progress while another         *)
(* notification is inside the gate                                          *)
Wit_C14 ==
    \E c \in Callers, d \in Callers :
        /\ nc[c].pc = "gate"
        /\ nc[d].pc = "dial"
        /\ nc[d].i > 0

(* The recipient list the notifier was configured with *)
InitialTo == SubSeq(ConfiguredTo, 1, 1)

(* C19: from the call of a Send* method until its message is built, the     *)
(* recipients of an escalation are the configured recipients followed by    *)
(* the escalation address if there is one, those of every other             *)
(* notification are the configured recipients alone; and the configured     *)
(* list itself never changes.                                               *)
Thm_C19_Recipients ==
    /\ toLen = Len(InitialTo)
    /\ SubSeq(backing, 1, toLen) = InitialTo
    /\ \A c \in Callers :
          nc[c].pc \in {"called", "gateLock", "gate", "ready"} =>
              Elements(nc[c].rec) =
                  IF nc[c].kind = "Escalation" /\ escalationEmail # ""
                    THEN Append(InitialTo, escalationEmail)
                    ELSE InitialTo

(* an escalation wrote its address into the spare capacity of the           *)
(* configured list's array, and a draft-overdue notice is about to be built *)
Wit_C19 ==
    /\ Len(backing) = 2
    /\ backing[2] = "esc"
    /\ \E c \in Callers : nc[c].pc = "ready" /\ nc[c].kind = "DraftOverdue"
    /\ \E c \in Callers : nc[c].pc = "dial" /\ nc[c].kind = "Escalation"

----------------------------------------------------------------------------
(* Claims about the notifier and Close, checked under SpecClose *)

AllFailed(outcomes) == \A k \in 1..Len(outcomes) : outcomes[k] = "fail"

(* C21: sendNotification makes at most 3 SMTP attempts, none after one that *)
(* succeeded; it returns success at the first attempt that succeeds, and an *)
(* error iff all 3 attempts failed, or the body could not be generated, or  *)
(* the notifier is closed; and it passes the rate-limit gate once for the   *)
(* notification, however many attempts it makes.                            *)
Thm_C21_FinalOutcome ==
    \A c \in Callers :
        LET call == nc[c]
            n == Len(call.outcomes) IN
        /\ n + (IF call.pc = "dial" THEN 1 ELSE 0) <= MaxRetries
        /\ AllFailed(SubSeq(call.outcomes, 1, n - 1))
        /\ call.pc \in {"dial", "backoff"} => (AllFailed(call.outcomes) /\ call.gates = 1)
        /\ call.pc = "returned" =>
              /\ call.ret # "nil" <=>
                     \/ n = MaxRetries /\ AllFailed(call.outcomes)
                     \/ call.ret = "body" /\ n = 0 /\ call.gates = 1
                     \/ call.ret = "closed" /\ n = 0 /\ call.gates = 0
              /\ call.ret = "nil" =>
                     \/ n >= 1 /\ call.outcomes[n] = "ok" /\ call.gates = 1
                     \/ skipEmails /\ n = 0 /\ call.gates = 0
              /\ call.gates <= 1

(* One call has returned success after two failed attempts and one passage  *)
(* of the gate, another has returned the error of three failed attempts     *)
Wit_C21 ==
    /\ nc[1].pc = "returned"
    /\ nc[1].ret = "nil"
    /\ nc[1].outcomes = <<"fail", "fail", "ok">>
    /\ nc[1].gates = 1
    /\ nc[2].pc = "returned"
    /\ nc[2].ret = "smtp"
    /\ nc[2].outcomes = <<"fail", "fail", "fail">>
    /\ nc[2].gates = 1

(* C23 as stated: once Close has returned no notification is sent any more, *)
(* no caller is in the rate-limit gate or in an SMTP attempt.               *)
Orig_C23_NoSendAfterClose ==
    notifierClosed => \A c \in Callers : nc[c].pc \notin {"gate", "dial"}

(* C23, amended: once Close has returned, every send operation that begins  *)
(* afterwards returns the "email notifier is closed" error without passing  *)
(* the gate and without an SMTP attempt; an operation that made its closed  *)
(* check before Close returned may still pass the gate and send.            *)
Thm_C23_ClosedRefusesNewSends ==
    \A c \in Callers :
        nc[c].afterClose =>
            /\ notifierClosed
            /\ nc[c].pc \in {"called", "returned"}
            /\ nc[c].gates = 0
            /\ nc[c].outcomes = <<>>
            /\ nc[c].pc = "returned" => nc[c].ret = "closed"

(* Close has returned; a call begun afterwards was refused while a call     *)
(* that had made its closed check before is in an SMTP attempt              *)
Wit_C23 ==
    /\ notifierClosed
    /\ nc[1].afterClose /\ nc[1].pc = "returned" /\ nc[1].ret = "closed"
    /\ ~nc[2].afterClose /\ nc[2].pc = "dial"

----------------------------------------------------------------------------
(* Claims about watch mode, checked under SpecWatch *)

(* A check run is in progress: CheckPRs has been called and has not returned *)
RunInProgress == mainPc = "aggregating"

(* No goroutine of a check run is running *)
NoRunGoroutine ==
    /\ feeder.pc \in {"idle", "done"}
    /\ \A w \in WorkerIds : wpc[w] \in {"idle", "exit"}
    /\ resultChan = <<>>

C25Step ==
    \* a run after the first starts by taking one tick, and a tick taken starts a run
    /\ (mainPc # "idle" /\ mainPc' = "idle") =>
          /\ mainPc \in {"returned", "failed"}
          /\ watch.tickerC = 1 /\ watch'.tickerC = 0
          /\ watch'.runs = watch.runs + 1
    /\ (watch.tickerC = 1 /\ watch'.tickerC = 0 /\ mainPc' # "exited") => mainPc' = "idle"
    /\ watch'.runs # watch.runs => mainPc' = "idle"
    \* a run in progress is left alone: no exit, no cancellation, no Close,
    \* and a signal that arrived stays in the channel
    /\ RunInProgress =>
          /\ mainPc' \in {"aggregating", "returned", "failed"}
          /\ cancelled' = cancelled /\ notifierClosed' = notifierClosed
          /\ watch'.sigChan >= watch.sigChan
    \* the loop is left on a signal only, also after a failed run
    /\ (mainPc # "exited" /\ mainPc' = "exited") =>
          /\ mainPc \in {"returned", "failed"}
          /\ watch.sigChan = 1
    /\ ~cancelled /\ cancelled' => mainPc = "exited"
    \* after the exit nothing starts
    /\ mainPc = "exited" => (mainPc' = "exited" /\ watch'.runs = watch.runs)

(* C25: in watch mode the first check run starts at once and every further *)
(* one by a tick taken from the ticker's channel; no two runs overlap: when *)
(* no run is in progress no goroutine of a run is running; after a failed   *)
(* run the loop can take the next tick as after a successful one; a signal  *)
(* is acted on at the select between runs only, never while a run is in     *)
(* progress, and after main has left the loop no run starts.                *)
Thm_C25_WatchLoop ==
    /\ (mainPc = "idle" /\ watch.runs = 1 /\ watch.tickerC = 0)
    /\ [](~RunInProgress => NoRunGoroutine)
    /\ []((mainPc = "failed" /\ watch.tickerC = 1 /\ watch.runs < MaxRuns) => ENABLED SelectTick)
    /\ [][C25Step]_vars

(* The second run is in progress, with a worker inside processPR, while a   *)
(* shutdown signal and the next tick wait in their channels                 *)
Wit_C25 ==
    /\ watch.on
    /\ watch.runs = 2
    /\ RunInProgress
    /\ watch.sigChan = 1
    /\ watch.tickerC = 1
    /\ \E w \in Active : wpc[w] = "dispatch"

----------------------------------------------------------------------------
(* Claims about termination, checked under SpecLive *)

(* processPRsConcurrently has returned and none of its goroutines is left *)
AllDone ==
    /\ mainPc = "returned"
    /\ feeder.pc = "done"
    /\ prChanClosed
    /\ \A w \in Active : wpc[w] = "exit"
    /\ resultChanClosed
    /\ resultChan = <<>>

(* C22: every call of processPRsConcurrently eventually returns when each   *)
(* dispatcher call returns, for any number of snapshots, one or more        *)
(* workers and cancellation at any moment: the feeder closes prChan, every  *)
(* worker exits, resultChan is closed and the aggregation loop ends, so no  *)
(* goroutine of the run stays blocked on a channel.                         *)
Thm_C22_Terminates == (mainPc = "aggregating") ~> AllDone

(* A run cancelled while the feeder was feeding has returned: a snapshot    *)
(* was never put on prChan, and nothing is left running                     *)
Wit_C22 ==
    /\ AllDone
    /\ cancelled
    /\ Len(prs) = MaxPRs
    /\ feeder.i <= Len(prs)
    /\ \E i \in Idx : taken[i] = 0

====
